---- MODULE Spec2Model ----
(***************************************************************************)
(* Exhaustive TSP enumerator (src/bin/tsp.rs): the in-place lexical        *)
(* next_permutation, the tour length, the reversal-canonical 64-bit key    *)
(* and the enumeration loop of main.                                       *)
(*                                                                         *)
(* Three specifications:                                                   *)
(*   Spec      main's run for every town count 0..MaxN and every placement *)
(*             of the towns on Points;                                     *)
(*   SpecPerm  next_permutation driven from every sequence of length       *)
(*             0..MaxK over 1..MaxK until it returns false;                 *)
(*   SpecKey   tour_as_key applied to pairs of tours of equal length.      *)
(* Vec and slice indices are 0-based in the source; At(s, i) reads the     *)
(* element the source writes s[i].                                         *)
(***************************************************************************)
EXTENDS Integers, Sequences, FiniteSets

VARIABLES
    \* ---- main (Spec)
    n,            \* args.n
    towns,        \* Vec<[f64; 2]>, index 0..n-1
    dist_mat,     \* Vec<Vec<f64>>, index 0..n-1 twice
    tour,         \* Vec<usize>
    tour_length,  \* FxHashMap<u64, f64>: a function on the keys present
    min_length,   \* f64
    output,       \* the lines printed: <<key, length - min_length>>
    pc,           \* "loop", "print", "done", "panic"
    visited,      \* history: the tours processed by the loop body, in order
    \* ---- next_permutation alone (SpecPerm)
    perm,         \* the slice
    perm_start,   \* history: the slice before the first call
    perm_before,  \* history: the slice before the last call
    perm_ret,     \* what the last call returned
    perm_calls,   \* history: number of calls made
    perm_seen,    \* history: the states of the slice, first included
    perm_pc,      \* "run" until a call returns false, then "stop"
    \* ---- tour_as_key alone (SpecKey)
    key_t1, key_t2,   \* two tours of equal length
    key_k1, key_k2,   \* their keys
    key_pc            \* "input", then "done"

vars == <<n, towns, dist_mat, tour, tour_length, min_length, output, pc, visited,
          perm, perm_start, perm_before, perm_ret, perm_calls, perm_seen, perm_pc,
          key_t1, key_t2, key_k1, key_k2, key_pc>>

mainVars == <<n, towns, dist_mat, tour, tour_length, min_length, output, pc, visited>>
permVars == <<perm, perm_start, perm_before, perm_ret, perm_calls, perm_seen, perm_pc>>
keyVars  == <<key_t1, key_t2, key_k1, key_k2, key_pc>>

\* ---------------------------------------------------------------- bounds
\* largest town count of Spec
MaxN == 5
\* largest slice length, and largest element, of SpecPerm
MaxK == 4
\* longest tour of which SpecKey takes every permutation
MaxTour == 4

\* ---------------------------------------------------------------- helpers
At(s, i) == s[i + 1]

Reverse(s) == [i \in 1..Len(s) |-> s[Len(s) + 1 - i]]

RECURSIVE Factorial(_)
Factorial(k) == IF k <= 1 THEN 1 ELSE k * Factorial(k - 1)

\* all sequences of length k over S
SeqsOf(S, k) == [1..k -> S]

\* all orderings of the elements of the finite set S
Permutations(S) ==
    {p \in [1..Cardinality(S) -> S] : \A x \in S : \E i \in DOMAIN p : p[i] = x}

\* number of occurrences of x in s
Count(s, x) == Cardinality({i \in DOMAIN s : s[i] = x})

IsPermutationOf(s, t) ==
    /\ Len(s) = Len(t)
    /\ \A i \in DOMAIN t : Count(s, t[i]) = Count(t, t[i])

\* strict lexical order on sequences of equal length
LexLess(s, t) ==
    \E i \in DOMAIN s :
        /\ s[i] < t[i]
        /\ \A j \in 1..(i - 1) : s[j] = t[j]

\* ------------------------------------------------- next_permutation (24-54)
\* Step 1: walk left from the end over the weakly decreasing suffix
RECURSIVE scan_suffix(_, _)
scan_suffix(self, i) ==
    IF i > 0 /\ At(self, i - 1) >= At(self, i)
    THEN scan_suffix(self, i - 1)
    ELSE i

\* Step 2: rightmost element larger than the pivot self[i - 1]
RECURSIVE scan_larger(_, _, _)
scan_larger(self, i, j) ==
    IF j >= i /\ At(self, j) <= At(self, i - 1)
    THEN scan_larger(self, i, j - 1)
    ELSE j

\* slice::swap(a, b)
swap(self, a, b) ==
    [k \in 1..Len(self) |->
        IF k = a + 1 THEN At(self, b)
        ELSE IF k = b + 1 THEN At(self, a)
        ELSE self[k]]

\* self[i..].reverse()
reverse_from(self, i) ==
    [k \in 1..Len(self) |->
        IF k <= i THEN self[k] ELSE self[Len(self) + i + 1 - k]]

\* a plausible slip: Step 4 left out
next_permutation_no_reverse(self) ==
    IF Len(self) < 2 THEN [seq |-> self, ret |-> FALSE]
    ELSE LET i == scan_suffix(self, Len(self) - 1) IN
         IF i = 0 THEN [seq |-> self, ret |-> FALSE]
         ELSE LET j == scan_larger(self, i, Len(self) - 1) IN
              [seq |-> swap(self, j, i - 1), ret |-> TRUE]

\* a plausible slip: the last permutation wraps around to the first one,
\* as C++'s std::next_permutation does
next_permutation_wraps(self) ==
    IF Len(self) < 2 THEN [seq |-> self, ret |-> FALSE]
    ELSE LET i == scan_suffix(self, Len(self) - 1) IN
         IF i = 0 THEN [seq |-> Reverse(self), ret |-> FALSE]
         ELSE LET j == scan_larger(self, i, Len(self) - 1) IN
              [seq |-> reverse_from(swap(self, j, i - 1), i), ret |-> TRUE]

\* the slice after the call, and the value returned
next_permutation(self) ==
    IF Len(self) < 2 THEN [seq |-> self, ret |-> FALSE]
    ELSE LET i == scan_suffix(self, Len(self) - 1) IN
         IF i = 0 THEN [seq |-> self, ret |-> FALSE]
         ELSE LET j == scan_larger(self, i, Len(self) - 1) IN
              [seq |-> reverse_from(swap(self, j, i - 1), i), ret |-> TRUE]

\* ------------------------------------------------------ program constants
\* key <<= 4: bits per packed index
BitsPerIndex == 4
\* the key is a u64
KeyBits == 64
\* f64::INFINITY, above every length the towns on Points can give
F64Infinity == 1000000

Radix == 2 ^ BitsPerIndex
NibbleCount == KeyBits \div BitsPerIndex
\* the number of indices a key holds without loss
PackLimit == KeyBits \div BitsPerIndex

\* ------------------------------------------------------------- u64 values
\* A u64 is its NibbleCount base-Radix digits, most significant first.
U64Zero == [i \in 1..NibbleCount |-> 0]

\* a plausible slip: the shift left out of the loop body
u64_shl_none(key) == key

\* key <<= 4: the top digit is shifted out (no overflow check on <<)
u64_shl(key) ==
    [i \in 1..NibbleCount |-> IF i < NibbleCount THEN key[i + 1] ELSE 0]

RECURSIVE add_carry(_, _, _)
add_carry(key, i, c) ==
    IF i = 0 \/ c = 0 THEN key
    ELSE LET s == key[i] + c IN
         add_carry([key EXCEPT ![i] = s % Radix], i - 1, s \div Radix)

\* key += v modulo 2^64 (a release build; a carry out of the top digit is
\* lost). The tours enumerated here never carry out of the top digit.
u64_add(key, v) == add_carry(key, NibbleCount, v)

\* ------------------------------------------------------ tour_as_key (91-105)
\* the loop body, for the elements of s in order
RECURSIVE pack(_, _, _)
pack(key, s, i) ==
    IF i > Len(s) THEN key
    ELSE pack(u64_add(u64_shl(key), s[i] - 1), s, i + 1)

\* a plausible slip: no choice of direction
tour_as_key_forward(t) == pack(U64Zero, t, 1)

tour_as_key(t) ==
    IF At(t, 0) < At(t, Len(t) - 1)
    THEN pack(U64Zero, t, 1)
    ELSE pack(U64Zero, Reverse(t), 1)

\* --------------------------------------------------- make_dist_mat (65-80)
\* Town coordinates are drawn from the corners of a 3-4-5 triangle, whose
\* pairwise distances (0, 3, 4, 5) are whole numbers, so that hypot and the
\* sums of distances are exact.
Points == {<<0, 0>>, <<3, 0>>, <<0, 4>>}

\* f64::hypot on arguments whose hypotenuse is a whole number
hypot(x, y) ==
    LET ax == IF x < 0 THEN -x ELSE x
        ay == IF y < 0 THEN -y ELSE y
    IN CHOOSE r \in 0..(ax + ay) : r * r = x * x + y * y

make_dist_mat(ts) ==
    [a \in DOMAIN ts |->
        [b \in DOMAIN ts |-> hypot(ts[a][1] - ts[b][1], ts[a][2] - ts[b][2])]]

\* ------------------------------------------------ calc_tour_length (82-89)
\* FSum::add: the running sum is exact
fsum_add(sum, x) == sum + x

\* the for loop over i in 0..tour.len() - 1, from i on
RECURSIVE sum_legs(_, _, _, _)
sum_legs(sum, dm, t, i) ==
    IF i >= Len(t) - 1 THEN sum
    ELSE sum_legs(fsum_add(sum, dm[At(t, i)][At(t, i + 1)]), dm, t, i + 1)

\* a plausible slip: the leg back to town 0 left out
calc_tour_length_open(dm, t) ==
    sum_legs(fsum_add(0, dm[0][At(t, 0)]), dm, t, 0)

calc_tour_length(dm, t) ==
    fsum_add(sum_legs(fsum_add(0, dm[0][At(t, 0)]), dm, t, 0),
             dm[At(t, Len(t) - 1)][0])

\* ------------------------------------------------------------ main (115-135)
\* a plausible slip: the minimum replaced by the latest length
f64_min_latest(a, b) == b

\* f64::min
f64_min(a, b) == IF b < a THEN b ELSE a

\* a plausible slip: an existing entry is added to, not replaced
insert_accumulate(map, key, value) ==
    [k \in DOMAIN map \cup {key} |->
        IF k = key THEN (IF key \in DOMAIN map THEN map[key] + value ELSE value)
        ELSE map[k]]

\* HashMap::insert: insert or replace
insert(map, key, value) ==
    [k \in DOMAIN map \cup {key} |-> IF k = key THEN value ELSE map[k]]

\* (1..args.n).collect()
identity_tour(k) == [i \in 1..(k - 1) |-> i]

PermIdle ==
    /\ perm = <<>> /\ perm_start = <<>> /\ perm_before = <<>>
    /\ perm_ret = TRUE /\ perm_calls = 0 /\ perm_seen = <<>> /\ perm_pc = "idle"

KeyIdle ==
    /\ key_t1 = <<>> /\ key_t2 = <<>> /\ key_k1 = U64Zero /\ key_k2 = U64Zero
    /\ key_pc = "idle"

MainIdle ==
    /\ n = 0 /\ towns = <<>> /\ dist_mat = <<>> /\ tour = <<>>
    /\ tour_length = <<>> /\ min_length = F64Infinity /\ output = {}
    /\ pc = "idle" /\ visited = <<>>

\* lines 116-123
Init ==
    /\ n \in 0..MaxN
    /\ towns \in [0..(n - 1) -> Points]
    /\ dist_mat = make_dist_mat(towns)
    /\ tour = identity_tour(n)
    /\ tour_length = <<>>
    /\ min_length = F64Infinity
    /\ output = {}
    /\ pc = "loop"
    /\ visited = <<>>
    /\ PermIdle
    /\ KeyIdle

\* line 84 indexes dist_mat[0] and tour[0]: out of bounds for n = 0 (no row)
\* and for n = 1 (empty tour); the process panics
LoopPanic ==
    /\ pc = "loop"
    /\ (n = 0 \/ Len(tour) = 0)
    /\ pc' = "panic"
    /\ UNCHANGED <<n, towns, dist_mat, tour, tour_length, min_length, output, visited>>
    /\ UNCHANGED <<permVars, keyVars>>

\* lines 125-127 for the current tour
Process ==
    LET length == calc_tour_length(dist_mat, tour) IN
    /\ tour_length' = insert(tour_length, tour_as_key(tour), length)
    /\ min_length' = f64_min(min_length, length)
    /\ visited' = Append(visited, tour)

\* one pass of the loop body in which next_permutation returns true
LoopContinue ==
    /\ pc = "loop"
    /\ ~(n = 0 \/ Len(tour) = 0)
    /\ Process
    /\ next_permutation(tour).ret
    /\ tour' = next_permutation(tour).seq
    /\ pc' = "loop"
    /\ UNCHANGED <<n, towns, dist_mat, output>>
    /\ UNCHANGED <<permVars, keyVars>>

\* the pass in which next_permutation returns false: break
LoopBreak ==
    /\ pc = "loop"
    /\ ~(n = 0 \/ Len(tour) = 0)
    /\ Process
    /\ ~next_permutation(tour).ret
    /\ tour' = next_permutation(tour).seq
    /\ pc' = "print"
    /\ UNCHANGED <<n, towns, dist_mat, output>>
    /\ UNCHANGED <<permVars, keyVars>>

\* lines 132-134
Report ==
    /\ pc = "print"
    /\ output' = {<<k, tour_length[k] - min_length>> : k \in DOMAIN tour_length}
    /\ pc' = "done"
    /\ UNCHANGED <<n, towns, dist_mat, tour, tour_length, min_length, visited>>
    /\ UNCHANGED <<permVars, keyVars>>

Next == LoopPanic \/ LoopContinue \/ LoopBreak \/ Report

Spec == Init /\ [][Next]_vars

\* ------------------------------------------------ next_permutation, driven
InitPerm ==
    /\ \E k \in 0..MaxK : perm \in SeqsOf(1..MaxK, k)
    /\ perm_start = perm
    /\ perm_before = perm
    /\ perm_ret = TRUE
    /\ perm_calls = 0
    /\ perm_seen = <<perm>>
    /\ perm_pc = "run"
    /\ MainIdle
    /\ KeyIdle

CallTrue ==
    /\ perm_pc = "run"
    /\ next_permutation(perm).ret
    /\ perm' = next_permutation(perm).seq
    /\ perm_before' = perm
    /\ perm_ret' = TRUE
    /\ perm_calls' = perm_calls + 1
    /\ perm_seen' = Append(perm_seen, perm')
    /\ UNCHANGED <<perm_start, perm_pc>>
    /\ UNCHANGED <<mainVars, keyVars>>

CallFalse ==
    /\ perm_pc = "run"
    /\ ~next_permutation(perm).ret
    /\ perm' = next_permutation(perm).seq
    /\ perm_before' = perm
    /\ perm_ret' = FALSE
    /\ perm_calls' = perm_calls + 1
    /\ perm_pc' = "stop"
    /\ UNCHANGED <<perm_start, perm_seen>>
    /\ UNCHANGED <<mainVars, keyVars>>

NextPerm == CallTrue \/ CallFalse

SpecPerm == InitPerm /\ [][NextPerm]_vars

\* ------------------------------------------------------ tour_as_key, applied
\* the tours of length len that keep 2 first and 5, 6, .. last and put
\* 1, 3, 4 and len in every order between them
WindowTours(len) ==
    {<<2>> \o s \o [i \in 1..(len - 5) |-> i + 4] : s \in Permutations({1, 3, 4, len})}

\* every tour up to MaxTour towns; beyond, up to one town more than the
\* packing limit, the window tours and their reverses
KeyLens == 1..(PackLimit + 1)
KeyTours(len) ==
    IF len <= MaxTour THEN Permutations(1..len)
    ELSE WindowTours(len) \cup {Reverse(t) : t \in WindowTours(len)}

InitKey ==
    /\ \E len \in KeyLens : key_t1 \in KeyTours(len) /\ key_t2 \in KeyTours(len)
    /\ key_k1 = U64Zero
    /\ key_k2 = U64Zero
    /\ key_pc = "input"
    /\ MainIdle
    /\ PermIdle

Encode ==
    /\ key_pc = "input"
    /\ key_k1' = tour_as_key(key_t1)
    /\ key_k2' = tour_as_key(key_t2)
    /\ key_pc' = "done"
    /\ UNCHANGED <<key_t1, key_t2>>
    /\ UNCHANGED <<mainVars, permVars>>

NextKey == Encode

SpecKey == InitKey /\ [][NextKey]_vars

\* ================================================================ claims

\* ---- SpecPerm
StartAscending ==
    \A i \in 1..(Len(perm_start) - 1) : perm_start[i] < perm_start[i + 1]

WeaklyDecreasing(s) == \A i \in 1..(Len(s) - 1) : s[i] >= s[i + 1]

SeenSet == {perm_seen[i] : i \in DOMAIN perm_seen}

\* C1: from K distinct elements in ascending order, the calls up to the one
\* that returns false visit K! states, the first included; every state is a
\* permutation of the first, each is lexically greater than the one before
\* (so all are distinct), together they are all the permutations, and it is
\* the K!-th call that returns false.
C1_AllPermutationsInOrder ==
    StartAscending =>
        /\ \A i \in DOMAIN perm_seen : IsPermutationOf(perm_seen[i], perm_start)
        /\ \A i \in 1..(Len(perm_seen) - 1) : LexLess(perm_seen[i], perm_seen[i + 1])
        /\ perm_pc = "run" =>
              /\ perm_calls = Len(perm_seen) - 1
              /\ perm_calls < Factorial(Len(perm_start))
        /\ perm_pc = "stop" =>
              /\ ~perm_ret
              /\ perm_calls = Factorial(Len(perm_start))
              /\ Len(perm_seen) = Factorial(Len(perm_start))
              /\ SeenSet = Permutations({perm_start[i] : i \in DOMAIN perm_start})

C1_Witness ==
    /\ perm_pc = "stop"
    /\ StartAscending
    /\ Len(perm_start) >= 3
    /\ perm_calls = Factorial(Len(perm_start))

\* C2: a call that returns false leaves the slice as it was; a slice of
\* length 0 or 1, and a weakly decreasing slice, get false.
C2_FalseLeavesUnchanged ==
    perm_calls > 0 =>
        /\ ~perm_ret => perm = perm_before
        /\ (Len(perm_before) < 2 \/ WeaklyDecreasing(perm_before)) =>
              (~perm_ret /\ perm = perm_before)

C2_Witness ==
    /\ perm_calls > 0
    /\ ~perm_ret
    /\ Len(perm_before) >= 2
    /\ WeaklyDecreasing(perm_before)
    /\ Reverse(perm_before) # perm_before
    /\ perm = perm_before

\* ---- SpecKey
\* C3: within the packing limit a tour and its reverse get the same key.
C3_ReversalInvariant ==
    (key_pc = "done" /\ Len(key_t1) <= PackLimit /\ key_t2 = Reverse(key_t1))
        => key_k1 = key_k2

C3_Witness ==
    /\ key_pc = "done"
    /\ Len(key_t1) = PackLimit
    /\ key_t2 = Reverse(key_t1)
    /\ key_t2 # key_t1
    /\ key_k1 = key_k2

\* C4: within the packing limit two tours that are neither equal nor each
\* other's reverse get different keys.
C4_InjectiveModuloReversal ==
    (/\ key_pc = "done"
     /\ Len(key_t1) <= PackLimit
     /\ key_t1 # key_t2
     /\ key_t2 # Reverse(key_t1))
        => key_k1 # key_k2

C4_Witness ==
    /\ key_pc = "done"
    /\ Len(key_t1) = PackLimit
    /\ key_t1 # key_t2
    /\ key_t2 # Reverse(key_t1)
    /\ key_k1 # key_k2

\* C8: beyond the packing limit no two tours that are neither equal nor
\* each other's reverse are given the same key (the program has no path that
\* rejects the instance and no wider key, so this is all the claim leaves).
C8_NoSilentCollision ==
    (/\ key_pc = "done"
     /\ Len(key_t1) > PackLimit
     /\ key_t1 # key_t2
     /\ key_t2 # Reverse(key_t1))
        => key_k1 # key_k2

\* ---- Spec
Finished == pc \in {"print", "done"}

AllTours == Permutations(1..(n - 1))

MinOf(S) == CHOOSE m \in S : \A x \in S : m <= x

\* the pairs <<i, key of visited[i]>>
VisitedKeys == {<<i, tour_as_key(visited[i])>> : i \in DOMAIN visited}

\* the positions in visited of the tours with key k, vk being VisitedKeys
WritersOf(vk, k) == {p[1] : p \in {q \in vk : q[2] = k}}

Last(S) == CHOOSE i \in S : \A j \in S : j <= i

C6_GlobalMinimum ==
    Finished =>
        min_length = MinOf({calc_tour_length(dist_mat, t) : t \in AllTours})

C6_Witness ==
    /\ pc = "done"
    /\ n >= 4
    /\ min_length < calc_tour_length(dist_mat, visited[1])
    /\ min_length < calc_tour_length(dist_mat, visited[Len(visited)])

\* C7: for n = 0, 1 and 2 the run does not fail, and ends having processed
\* the identity tour alone, with its length in the map and as the minimum.
C7_DegenerateCompletes ==
    n <= 2 =>
        /\ pc # "panic"
        /\ Finished =>
              /\ visited = <<identity_tour(n)>>
              /\ Cardinality(DOMAIN tour_length) = 1
              /\ \A k \in DOMAIN tour_length : tour_length[k] = min_length

ExampleTowns ==
    [i \in 0..2 |-> IF i = 0 THEN <<0, 0>> ELSE IF i = 1 THEN <<3, 0>> ELSE <<0, 4>>]

\* C9: when the loop has ended for n >= 2 the keys of the map are the keys
\* of all permutations of 1..n-1, one per pair of a tour and its reverse:
\* (n-1)!/2 of them for n >= 3 and one for n = 2. For the three towns (0,0),
\* (3,0), (0,4) the distances are 3, 4 and 5, the map holds one entry, of
\* length 12, and the one line printed has 0.
C9_OneEntryPerUndirectedTour ==
    /\ (Finished /\ n >= 2) =>
          /\ DOMAIN tour_length = {tour_as_key(t) : t \in AllTours}
          /\ \A t \in AllTours : tour_as_key(Reverse(t)) \in DOMAIN tour_length
          /\ Cardinality(DOMAIN tour_length) =
                IF n >= 3 THEN Factorial(n - 1) \div 2 ELSE 1
    /\ (Finished /\ towns = ExampleTowns) =>
          /\ dist_mat[0][1] = 3 /\ dist_mat[0][2] = 4 /\ dist_mat[1][2] = 5
          /\ Cardinality(DOMAIN tour_length) = 1
          /\ \A k \in DOMAIN tour_length : tour_length[k] = 12
          /\ min_length = 12
    /\ (pc = "done" /\ towns = ExampleTowns) =>
          /\ Cardinality(output) = 1
          /\ \A o \in output : o[2] = 0

C9_Witness ==
    /\ pc = "done"
    /\ n = 5
    /\ Cardinality(DOMAIN tour_length) = 12

C9_ExampleReached ==
    /\ pc = "done"
    /\ towns = ExampleTowns
    /\ \E k \in DOMAIN tour_length : output = {<<k, 0>>}

IsSymmetric(dm) == \A a \in DOMAIN dm : \A b \in DOMAIN dm : dm[a][b] = dm[b][a]

====
